---------------------------- MODULE Spec2Model ----------------------------
(***************************************************************************)
(* stormcastrs: weather-station collector (src/src/main.rs).               *)
(*                                                                         *)
(* The model follows the source bottom-up: text parsing of query values,   *)
(* the f32 -> f64 rounding utility, the WeatherData schema and its decode, *)
(* the Metrics registry (new / update / encode), the three HTTP handlers   *)
(* and main.                                                               *)
(*                                                                         *)
(* Numbers.  A query value is a sequence of one-character strings.  A      *)
(* parsed f32 is kept as the decimal it was parsed from, n / 10^q, plus    *)
(* the direction `dir` in which the nearest f32 lies from that decimal     *)
(* (-1 below, 0 exact, +1 above, in magnitude).  A gauge holds an f64; all *)
(* values the program stores are the doubles nearest to k / 10^places, and *)
(* are kept as the integer k * 10^(MaxPlaces - places).                    *)
(***************************************************************************)
EXTENDS Integers, Sequences, FiniteSets, TLC

\* ------------------------------------------------------------------------
\* Bounds of the model
\* ------------------------------------------------------------------------

\* Largest `decimals` for which round is explored; gauge values are kept in
\* units of 10^-MaxPlaces.
MaxPlaces == 3

\* round's scaled-integer inputs n / 10^(places+1) range over -MaxN .. MaxN.
MaxN == 40

\* Number of sample texts per key type that requests draw their values from.
MaxSamples == 3

\* ------------------------------------------------------------------------
\* Text: characters, integers, floats
\* ------------------------------------------------------------------------

DigitChars == <<"0", "1", "2", "3", "4", "5", "6", "7", "8", "9">>

IsDigit(c) == \E i \in 1..10 : DigitChars[i] = c

DigitVal(c) == (CHOOSE i \in 1..10 : DigitChars[i] = c) - 1

RECURSIVE Pow10(_)
Pow10(e) == IF e = 0 THEN 1 ELSE 10 * Pow10(e - 1)

Ok(v) == [ok |-> TRUE, val |-> v, err |-> ""]
Err(msg) == [ok |-> FALSE, val |-> [k |-> "none"], err |-> msg]

\* <uN as FromStr>::from_str: an optional "+", then digits scanned left to
\* right; a "-" is an invalid digit for an unsigned type.
RECURSIVE ScanUInt(_, _, _, _)
ScanUInt(s, i, acc, max) ==
    IF i > Len(s) THEN Ok([k |-> "int", v |-> acc])
    ELSE IF ~IsDigit(s[i]) THEN Err("invalid digit found in string")
    ELSE IF acc * 10 + DigitVal(s[i]) > max
         THEN Err("number too large to fit in target type")
    ELSE ScanUInt(s, i + 1, acc * 10 + DigitVal(s[i]), max)

ParseUInt(s, max) ==
    IF s = <<>> THEN Err("cannot parse integer from empty string")
    ELSE IF Len(s) = 1 /\ s[1] \in {"+", "-"} THEN Err("invalid digit found in string")
    ELSE IF s[1] = "+" THEN ScanUInt(Tail(s), 1, 0, max)
    ELSE ScanUInt(s, 1, 0, max)

\* Width of the f32 significand (1 implicit + 23 stored bits).
F32MantissaBits == 24

\* The direction of the nearest f32 from the decimal n / 10^q (n > 0, below
\* 2^24): scale by powers of two until the quotient has 24 bits, then round
\* the remainder to nearest, ties to even.  Quotient and remainder are
\* carried separately so that no product leaves the integer range.
RECURSIVE F32Scan(_, _, _)
F32Scan(quot, rem, den) ==
    IF quot >= 2 ^ (F32MantissaBits - 1)
    THEN IF rem = 0 THEN 0
         ELSE IF 2 * rem < den THEN -1
         ELSE IF 2 * rem > den THEN 1
         ELSE IF quot % 2 = 0 THEN -1 ELSE 1
    ELSE F32Scan(2 * quot + (IF 2 * rem >= den THEN 1 ELSE 0), (2 * rem) % den, den)

F32Dir(n, q) == IF n = 0 THEN 0 ELSE F32Scan(n \div Pow10(q), n % Pow10(q), Pow10(q))

\* A finite f32, as the decimal it is nearest to.  Trailing zeros are
\* dropped so that "0.5" and "0.50" are the same value.
RECURSIVE F32Of(_, _, _)
F32Of(neg, n, q) ==
    IF q > 0 /\ n % 10 = 0 THEN F32Of(neg, n \div 10, q - 1)
    ELSE [k |-> "fin", sgn |-> IF neg /\ n # 0 THEN -1 ELSE 1, n |-> n, q |-> q,
          dir |-> F32Dir(n, q)]

F32Inf(neg) == [k |-> "inf", sgn |-> IF neg THEN -1 ELSE 1, n |-> 0, q |-> 0, dir |-> 0]
F32NaN == [k |-> "nan", sgn |-> 1, n |-> 0, q |-> 0, dir |-> 0]

AllDigits(s) == \A i \in 1..Len(s) : IsDigit(s[i])

RECURSIVE DigitsVal(_)
DigitsVal(s) ==
    IF s = <<>> THEN 0
    ELSE 10 * DigitsVal(SubSeq(s, 1, Len(s) - 1)) + DigitVal(s[Len(s)])

\* Position of the first element of s that lies in set, or Len(s) + 1.
FirstIn(s, set) ==
    IF \E i \in 1..Len(s) : s[i] \in set
    THEN CHOOSE i \in 1..Len(s) : s[i] \in set /\ \A j \in 1..(i - 1) : s[j] \notin set
    ELSE Len(s) + 1

\* <f32 as FromStr>::from_str: [sign] (inf | infinity | nan | decimal), the
\* decimal being digits [. digits] [e [sign] digits] with at least one
\* mantissa digit.  (The alphabet of the model has lower-case letters only.)
ParseF32(s) ==
    IF s = <<>> THEN Err("cannot parse float from empty string")
    ELSE
    LET neg  == s[1] = "-"
        body == IF s[1] \in {"+", "-"} THEN Tail(s) ELSE s
        ePos == FirstIn(body, {"e"})
        mant == SubSeq(body, 1, ePos - 1)
        expo == SubSeq(body, ePos + 1, Len(body))
        dot  == FirstIn(mant, {"."})
        ip   == SubSeq(mant, 1, dot - 1)
        fp   == SubSeq(mant, dot + 1, Len(mant))
        eNeg == expo # <<>> /\ expo[1] = "-"
        eDig == IF expo # <<>> /\ expo[1] \in {"+", "-"} THEN Tail(expo) ELSE expo
        hasE == ePos <= Len(body)
        good == /\ AllDigits(ip) /\ AllDigits(fp) /\ Len(ip) + Len(fp) >= 1
                /\ hasE => (eDig # <<>> /\ AllDigits(eDig))
        ex   == IF hasE THEN (IF eNeg THEN -1 ELSE 1) * DigitsVal(eDig) ELSE 0
        q    == Len(fp) - ex
    IN  IF body \in {<<"i", "n", "f">>, <<"i", "n", "f", "i", "n", "i", "t", "y">>}
        THEN Ok(F32Inf(neg))
        ELSE IF body = <<"n", "a", "n">> THEN Ok(F32NaN)
        ELSE IF ~good THEN Err("invalid float literal")
        ELSE IF q >= 0 THEN Ok(F32Of(neg, DigitsVal(ip \o fp), q))
        ELSE Ok(F32Of(neg, DigitsVal(ip \o fp) * Pow10(-q), 0))

\* ------------------------------------------------------------------------
\* Gauge values (f64) and the rounding utility
\* ------------------------------------------------------------------------

Num(v) == [k |-> "num", v |-> v]
GInf(sgn) == [k |-> "inf", v |-> sgn]
GNaN == [k |-> "nan", v |-> 0]

\* f64::from(v) for an integer field.
F64FromInt(x) == Num(x.v * Pow10(MaxPlaces))

\* round with the sign test of the tie dropped: the f32 is taken to be the
\* decimal itself.
RoundDecimal(value, decimals) ==
    CASE value.k = "nan" -> GNaN
      [] value.k = "inf" -> GInf(value.sgn)
      [] OTHER ->
        LET N   == IF value.q <= decimals THEN value.n * Pow10(decimals - value.q)
                   ELSE value.n
            D   == IF value.q <= decimals THEN 1 ELSE Pow10(value.q - decimals)
            up  == 2 * (N % D) >= D
            m   == (N \div D) + (IF up THEN 1 ELSE 0)
        IN  Num(value.sgn * m * Pow10(MaxPlaces - decimals))

\* fn round(value: f32, decimals: u8) -> f64:
\*     (f64::from(value) * 10^decimals).round() / 10^decimals
\* The product of a 24-bit significand and 10^decimals is exact in f64, so
\* f64::round (half away from zero) acts on the exact product N/D of the f32,
\* which lies on the `dir` side of the decimal's product; the quotient is
\* the double nearest to m / 10^decimals.
Round(value, decimals) ==
    CASE value.k = "nan" -> GNaN
      [] value.k = "inf" -> GInf(value.sgn)
      [] OTHER ->
        LET N   == IF value.q <= decimals THEN value.n * Pow10(decimals - value.q)
                   ELSE value.n
            D   == IF value.q <= decimals THEN 1 ELSE Pow10(value.q - decimals)
            rem == N % D
            up  == 2 * rem > D \/ (2 * rem = D /\ value.dir >= 0)
            m   == (N \div D) + (IF up THEN 1 ELSE 0)
        IN  Num(value.sgn * m * Pow10(MaxPlaces - decimals))

\* ------------------------------------------------------------------------
\* WeatherData: the schema and its decode
\* ------------------------------------------------------------------------

\* struct WeatherData: the typed optional fields, in declaration order.
Schema == <<
    [key |-> "tempf",          ty |-> "f32"],
    [key |-> "humidity",       ty |-> "u8"],
    [key |-> "windspeedmph",   ty |-> "f32"],
    [key |-> "windgustmph",    ty |-> "f32"],
    [key |-> "maxdailygust",   ty |-> "f32"],
    [key |-> "winddir",        ty |-> "u16"],
    [key |-> "winddir_avg10m", ty |-> "u16"],
    [key |-> "uv",             ty |-> "u8"],
    [key |-> "solarradiation", ty |-> "f32"],
    [key |-> "hourlyrainin",   ty |-> "f32"],
    [key |-> "eventrainin",    ty |-> "f32"],
    [key |-> "dailyrainin",    ty |-> "f32"],
    [key |-> "weeklyrainin",   ty |-> "f32"],
    [key |-> "monthlyrainin",  ty |-> "f32"],
    [key |-> "yearlyrainin",   ty |-> "f32"],
    [key |-> "tempinf",        ty |-> "f32"],
    [key |-> "humidityin",     ty |-> "u8"],
    [key |-> "baromrelin",     ty |-> "f32"],
    [key |-> "baromabsin",     ty |-> "f32"],
    [key |-> "battout",        ty |-> "u8"],
    [key |-> "battin",         ty |-> "u8"] >>

FieldKeys == {Schema[i].key : i \in 1..Len(Schema)}

FieldType(key) == Schema[CHOOSE i \in 1..Len(Schema) : Schema[i].key = key].ty

\* Largest value of an unsigned integer type.
UIntMax(ty) == IF ty = "u8" THEN 2 ^ 8 - 1 ELSE 2 ^ 16 - 1

\* Option<T>: serde_urlencoded visits Some for every value that is present
\* and parses its text with T::from_str.
ParseField(ty, text) ==
    IF ty = "f32" THEN ParseF32(text) ELSE ParseUInt(text, UIntMax(ty))

NoneVal == [k |-> "none"]

\* WeatherData::default(): every field None.
DefaultData == [f \in FieldKeys |-> NoneVal]

Present(data, key) == data[key].k # "none"

\* form_urlencoded byte serialisation of a value: unreserved characters
\* stay, a space becomes "+", any other character becomes %XX.
Unreserved == {DigitChars[i] : i \in 1..10} \cup
              {"a", "b", "c", "d", "e", "f", "g", "h", "i", "j", "k", "l", "m",
               "n", "o", "p", "q", "r", "s", "t", "u", "v", "w", "x", "y", "z",
               ".", "-", "_", "*"}

PercentCode(c) ==
    CASE c = "+" -> <<"%", "2", "B">>
      [] c = "&" -> <<"%", "2", "6">>
      [] c = "=" -> <<"%", "3", "D">>
      [] c = "%" -> <<"%", "2", "5">>
      [] OTHER   -> <<"%", "3", "F">>

RECURSIVE UrlEncode(_)
UrlEncode(text) ==
    IF text = <<>> THEN <<>>
    ELSE (IF text[1] \in Unreserved THEN <<text[1]>>
          ELSE IF text[1] = " " THEN <<"+">>
          ELSE PercentCode(text[1])) \o UrlEncode(Tail(text))

PercentChar(h1, h2) ==
    CASE <<h1, h2>> = <<"2", "B">> -> "+"
      [] <<h1, h2>> = <<"2", "6">> -> "&"
      [] <<h1, h2>> = <<"3", "D">> -> "="
      [] <<h1, h2>> = <<"2", "5">> -> "%"
      [] OTHER -> "?"

RECURSIVE UrlDecode(_)
UrlDecode(text) ==
    IF text = <<>> THEN <<>>
    ELSE IF text[1] = "+" THEN <<" ">> \o UrlDecode(Tail(text))
    ELSE IF text[1] = "%" /\ Len(text) >= 3
         THEN <<PercentChar(text[2], text[3])>> \o UrlDecode(SubSeq(text, 4, Len(text)))
    ELSE <<text[1]>> \o UrlDecode(Tail(text))

\* serde_urlencoded::to_string(&params): "k=v" pairs joined by "&", in the
\* HashMap's iteration order `order`.  A key is one symbol of the string
\* (every key of the model consists of unreserved characters).
RECURSIVE ToQueryString(_, _)
ToQueryString(params, order) ==
    IF order = <<>> THEN <<>>
    ELSE <<order[1], "=">> \o UrlEncode(params[order[1]])
         \o (IF Len(order) > 1 THEN <<"&">> ELSE <<>>)
         \o ToQueryString(params, Tail(order))

\* form_urlencoded::parse: split at "&", each piece at its first "=", and
\* decode the value.
RECURSIVE ParsePairs(_)
ParsePairs(qs) ==
    IF qs = <<>> THEN <<>>
    ELSE LET amp   == FirstIn(qs, {"&"})
             piece == SubSeq(qs, 1, amp - 1)
             eq    == FirstIn(piece, {"="})
             rest  == ParsePairs(SubSeq(qs, amp + 1, Len(qs)))
         IN  IF piece = <<>> THEN rest
             ELSE <<[key |-> piece[1],
                     val |-> UrlDecode(SubSeq(piece, eq + 1, Len(piece)))]>> \o rest

\* The derived Deserialize of WeatherData (with the flattened `extra` map):
\* A variant of the visit that refuses a key the schema does not know
\* (deny_unknown_fields instead of the flattened `extra`).
RECURSIVE VisitMapStrict(_, _, _, _)
VisitMapStrict(pairs, i, data, extra) ==
    IF i > Len(pairs) THEN [ok |-> TRUE, data |-> data, extra |-> extra, err |-> ""]
    ELSE LET p == pairs[i] IN
         IF p.key \in FieldKeys
         THEN IF Present(data, p.key)
              THEN [ok |-> FALSE, data |-> DefaultData, extra |-> {}, err |-> "duplicate field"]
              ELSE LET r == ParseField(FieldType(p.key), p.val) IN
                   IF r.ok
                   THEN VisitMapStrict(pairs, i + 1, [data EXCEPT ![p.key] = r.val], extra)
                   ELSE [ok |-> FALSE, data |-> DefaultData, extra |-> {}, err |-> r.err]
         ELSE [ok |-> FALSE, data |-> DefaultData, extra |-> {}, err |-> "unknown field"]

\* pairs are visited in order; a recognized key is parsed into its field at
\* once and the first failure ends the decode; any other key goes to `extra`
\* as a string and cannot fail.
RECURSIVE VisitMap(_, _, _, _)
VisitMap(pairs, i, data, extra) ==
    IF i > Len(pairs) THEN [ok |-> TRUE, data |-> data, extra |-> extra, err |-> ""]
    ELSE LET p == pairs[i] IN
         IF p.key \in FieldKeys
         THEN IF Present(data, p.key)
              THEN [ok |-> FALSE, data |-> DefaultData, extra |-> {}, err |-> "duplicate field"]
              ELSE LET r == ParseField(FieldType(p.key), p.val) IN
                   IF r.ok
                   THEN VisitMap(pairs, i + 1, [data EXCEPT ![p.key] = r.val], extra)
                   ELSE [ok |-> FALSE, data |-> DefaultData, extra |-> {}, err |-> r.err]
         ELSE VisitMap(pairs, i + 1, data, extra \cup {p.key})

\* serde_urlencoded::from_str::<WeatherData>(query_string)
FromStr(qs) == VisitMap(ParsePairs(qs), 1, DefaultData, {})

\* ------------------------------------------------------------------------
\* Metrics: the registry
\* ------------------------------------------------------------------------

\* Metrics::new: the gauges in registration order, each with the struct
\* member it is bound to, its name and its help text.
Catalog == <<
    [member |-> "temperature",        name |-> "weather_temperature_fahrenheit",
     help |-> "Outdoor temperature in Fahrenheit"],
    [member |-> "humidity",           name |-> "weather_humidity_percent",
     help |-> "Outdoor relative humidity percentage"],
    [member |-> "wind_speed",         name |-> "weather_wind_speed_mph",
     help |-> "Current wind speed in mph"],
    [member |-> "wind_gust",          name |-> "weather_wind_gust_mph",
     help |-> "Current wind gust speed in mph"],
    [member |-> "max_daily_gust",     name |-> "weather_max_daily_gust_mph",
     help |-> "Maximum wind gust today in mph"],
    [member |-> "wind_direction",     name |-> "weather_wind_direction_degrees",
     help |-> "Current wind direction in degrees (0-359)"],
    [member |-> "wind_direction_avg", name |-> "weather_wind_direction_avg10m_degrees",
     help |-> "10-minute average wind direction in degrees"],
    [member |-> "uv_index",           name |-> "weather_uv_index",
     help |-> "Current UV index level"],
    [member |-> "solar_radiation",    name |-> "weather_solar_radiation_wm2",
     help |-> "Solar radiation in watts per square meter"],
    [member |-> "rain_hourly",        name |-> "weather_rain_hourly_inches",
     help |-> "Rainfall in the last hour"],
    [member |-> "rain_event",         name |-> "weather_rain_event_inches",
     help |-> "Rainfall for the current rain event"],
    [member |-> "rain_daily",         name |-> "weather_rain_daily_inches",
     help |-> "Total rainfall today"],
    [member |-> "rain_weekly",        name |-> "weather_rain_weekly_inches",
     help |-> "Total rainfall this week"],
    [member |-> "rain_monthly",       name |-> "weather_rain_monthly_inches",
     help |-> "Total rainfall this month"],
    [member |-> "rain_yearly",        name |-> "weather_rain_yearly_inches",
     help |-> "Total rainfall this year"],
    [member |-> "temperature_indoor", name |-> "weather_indoor_temperature_fahrenheit",
     help |-> "Indoor temperature in Fahrenheit"],
    [member |-> "humidity_indoor",    name |-> "weather_indoor_humidity_percent",
     help |-> "Indoor relative humidity percentage"],
    [member |-> "barometer_relative", name |-> "weather_barometer_relative_inhg",
     help |-> "Relative barometric pressure in inches of mercury"],
    [member |-> "barometer_absolute", name |-> "weather_barometer_absolute_inhg",
     help |-> "Absolute barometric pressure in inches of mercury"],
    [member |-> "battery_outdoor",    name |-> "weather_battery_outdoor",
     help |-> "Outdoor sensor battery status (0=low, 1=ok)"],
    [member |-> "battery_indoor",     name |-> "weather_battery_indoor",
     help |-> "Indoor sensor battery status (0=low, 1=ok)"] >>

\* struct Metrics: the gauge members.
Members == {Catalog[i].member : i \in 1..Len(Catalog)}

\* Gauge::new: a fresh gauge holds 0.0.
ZeroGauges == [m \in Members |-> Num(0)]

\* A variant of register_gauge whose registry keeps only the gauge
\* registered last.
register_gaugeReplacing(registry, entry, refused) ==
    IF refused
    THEN [ok |-> FALSE, registry |-> <<>>, name |-> entry.name]
    ELSE [ok |-> TRUE, registry |-> <<entry>>, name |-> ""]

\* register_gauge: Gauge::new, then Registry::register, which refuses a name
\* that is already registered.  `refused` stands for the library rejecting
\* the descriptor.  The error carries the gauge's name.
register_gauge(registry, entry, refused) ==
    IF refused \/ \E i \in 1..Len(registry) : registry[i].name = entry.name
    THEN [ok |-> FALSE, registry |-> <<>>, name |-> entry.name]
    ELSE [ok |-> TRUE, registry |-> Append(registry, entry), name |-> ""]

\* A variant of Metrics::new that drops a gauge that cannot be registered
\* and goes on with the next.
RECURSIVE RegisterFromSkipping(_, _, _)
RegisterFromSkipping(i, registry, fault) ==
    IF i > Len(Catalog) THEN [ok |-> TRUE, registry |-> registry, name |-> ""]
    ELSE LET r == register_gauge(registry, Catalog[i], fault = i) IN
         IF r.ok THEN RegisterFromSkipping(i + 1, r.registry, fault)
         ELSE RegisterFromSkipping(i + 1, registry, fault)

\* Metrics::new: one pass over the catalog, `?` returning at the first error.
\* fault is the position at which the library refuses (0: nowhere).
RECURSIVE RegisterFrom(_, _, _)
RegisterFrom(i, registry, fault) ==
    IF i > Len(Catalog) THEN [ok |-> TRUE, registry |-> registry, name |-> ""]
    ELSE LET r == register_gauge(registry, Catalog[i], fault = i) IN
         IF r.ok THEN RegisterFrom(i + 1, r.registry, fault) ELSE r

MetricsNew(fault) == RegisterFrom(1, <<>>, fault)

\* Metrics::update: the statements in order; each writes the gauge named
\* with round(v, places), or with f64::from(v) for the integer fields.
UpdateTable == <<
    [key |-> "tempf",          member |-> "temperature",        conv |-> "round", places |-> 1],
    [key |-> "humidity",       member |-> "humidity",           conv |-> "from",  places |-> 0],
    [key |-> "windspeedmph",   member |-> "wind_speed",         conv |-> "round", places |-> 2],
    [key |-> "windgustmph",    member |-> "wind_gust",          conv |-> "round", places |-> 2],
    [key |-> "maxdailygust",   member |-> "max_daily_gust",     conv |-> "round", places |-> 2],
    [key |-> "winddir",        member |-> "wind_direction",     conv |-> "from",  places |-> 0],
    [key |-> "winddir_avg10m", member |-> "wind_direction_avg", conv |-> "from",  places |-> 0],
    [key |-> "uv",             member |-> "uv_index",           conv |-> "from",  places |-> 0],
    [key |-> "solarradiation", member |-> "solar_radiation",    conv |-> "round", places |-> 2],
    [key |-> "hourlyrainin",   member |-> "rain_hourly",        conv |-> "round", places |-> 3],
    [key |-> "eventrainin",    member |-> "rain_event",         conv |-> "round", places |-> 3],
    [key |-> "dailyrainin",    member |-> "rain_daily",         conv |-> "round", places |-> 3],
    [key |-> "weeklyrainin",   member |-> "rain_weekly",        conv |-> "round", places |-> 3],
    [key |-> "monthlyrainin",  member |-> "rain_monthly",       conv |-> "round", places |-> 3],
    [key |-> "yearlyrainin",   member |-> "rain_yearly",        conv |-> "round", places |-> 3],
    [key |-> "tempinf",        member |-> "temperature_indoor", conv |-> "round", places |-> 1],
    [key |-> "humidityin",     member |-> "humidity_indoor",    conv |-> "from",  places |-> 0],
    [key |-> "baromrelin",     member |-> "barometer_relative", conv |-> "round", places |-> 3],
    [key |-> "baromabsin",     member |-> "barometer_absolute", conv |-> "round", places |-> 3],
    [key |-> "battout",        member |-> "battery_outdoor",    conv |-> "from",  places |-> 0],
    [key |-> "battin",         member |-> "battery_indoor",     conv |-> "from",  places |-> 0] >>

\* A variant of Stored with one precision for every float field.
StoredOnePlace(stmt, v) == IF stmt.conv = "round" THEN Round(v, 1) ELSE F64FromInt(v)

\* A variant of Stored that clamps a negative value to zero.
StoredClamped(stmt, v) ==
    IF stmt.conv = "round"
    THEN (IF v.k = "fin" /\ v.sgn < 0 THEN Num(0) ELSE Round(v, stmt.places))
    ELSE F64FromInt(v)

\* The value a statement of update stores.
Stored(stmt, v) == IF stmt.conv = "round" THEN Round(v, stmt.places) ELSE F64FromInt(v)

\* A variant of Gauge::set that stores a whole new table: the gauge written
\* keeps its value, every other gauge is back at 0.0.
GaugeSetSnapshot(g, member, v) == [ZeroGauges EXCEPT ![member] = v]

\* A variant of Gauge::set that adds to the cell (Gauge::add).
GaugeAdd(g, member, v) == [g EXCEPT ![member] = Num(@.v + v.v)]

\* Gauge::set: an atomic store into the gauge's cell.
GaugeSet(g, member, v) == [g EXCEPT ![member] = v]

\* A variant of a statement of update that resets the gauge of a field
\* that is None.
UpdateStmtZero(g, stmt, data) ==
    GaugeSet(g, stmt.member,
             IF Present(data, stmt.key) THEN Stored(stmt, data[stmt.key]) ELSE Num(0))

\* One statement of update: if let Some(v) = data.key { self.member.set(..) }
UpdateStmt(g, stmt, data) ==
    IF Present(data, stmt.key) THEN GaugeSet(g, stmt.member, Stored(stmt, data[stmt.key]))
    ELSE g

RECURSIVE UpdateFrom(_, _, _)
UpdateFrom(i, g, data) ==
    IF i > Len(UpdateTable) THEN g
    ELSE UpdateFrom(i + 1, UpdateStmt(g, UpdateTable[i], data), data)

\* Metrics::update
Update(g, data) == UpdateFrom(1, g, data)

\* A variant of encode that leaves out the gauges still at 0.0.
EncodeWritten(registry, g) ==
    SelectSeq([i \in 1..Len(registry) |->
                  [name |-> registry[i].name, help |-> registry[i].help, type |-> "gauge",
                   value |-> g[registry[i].member]]],
              LAMBDA e : e.value # Num(0))

\* Metrics::encode: registry.gather() reads every registered gauge, and the
\* text encoder writes, per gauge, its HELP line, its TYPE line and its
\* value line.  The output is kept as the sequence of these entries, in
\* registration order (the text itself is sorted by name).
Encode(registry, g) ==
    [i \in 1..Len(registry) |->
        [name |-> registry[i].name, help |-> registry[i].help, type |-> "gauge",
         value |-> g[registry[i].member]]]

\* ------------------------------------------------------------------------
\* Inputs of the model
\* ------------------------------------------------------------------------

\* A key the schema does not know (stations send vendor extensions).
UnknownKey == "stationtype"

\* All query keys of the model, the recognized ones in schema order.
KeyOrder == [i \in 1..(Len(Schema) + 1) |->
                IF i <= Len(Schema) THEN Schema[i].key ELSE UnknownKey]

\* The keys one behaviour's requests carry: two keys adjacent in KeyOrder.
KeyWindows == {{KeyOrder[i], KeyOrder[i + 1]} : i \in 1..(Len(KeyOrder) - 1)}

\* Texts a station may send for a key of each type; requests use the first
\* MaxSamples of them.
Samples(ty) ==
    CASE ty = "f32" -> << <<"7", "2", ".", "4", "5", "6">>,
                          <<"n", "o", "t", "a", "n", "u", "m", "b", "e", "r">>,
                          <<"-", "2", ".", "6", "7", "5">>,
                          <<"0", ".", "3", "5">>,
                          <<"n", "a", "n">> >>
      [] ty = "u8"  -> << <<"4", "5">>, <<"3", "0", "0">>, <<"2", "0", "0">>,
                          <<"-", "1">>, <<"1">> >>
      [] ty = "u16" -> << <<"1", "8", "0">>, <<"4", ".", "5">>, <<"4", "0", "0">>,
                          <<"7", "0", "0", "0", "0">>, <<"0">> >>
      [] OTHER      -> << <<>>, <<"a", "&", "b", "=", " ", "+">>, <<"4", "5">>,
                          <<"x">>, <<"%">> >>

SampleText(ty) == {Samples(ty)[i] : i \in 1..MaxSamples}

KeyType(key) == IF key \in FieldKeys THEN FieldType(key) ELSE "extra"

NoParams == [key \in {} |-> <<>>]

\* The raw key -> string maps over subsets of a set of keys.
RECURSIVE ParamMaps(_)
ParamMaps(ks) ==
    IF ks = {} THEN {NoParams}
    ELSE LET key  == CHOOSE k \in ks : TRUE
             rest == ParamMaps(ks \ {key})
         IN  rest \cup {[k \in DOMAIN m \cup {key} |-> IF k = key THEN t ELSE m[k]] :
                           m \in rest, t \in SampleText(KeyType(key))}

\* The iteration orders of a map's keys.
Orders(ks) ==
    {o \in [1..Cardinality(ks) -> ks] : \A i, j \in 1..Cardinality(ks) : o[i] = o[j] => i = j}

\* ------------------------------------------------------------------------
\* State
\* ------------------------------------------------------------------------

VARIABLES
    mainPc,     \* main: "start", "bind", "serving", "exited"
    exit,       \* main's result once it has returned ("none" before)
    METRICS,    \* the Lazy cell: [state, registry, err]
    gauge,      \* the value of each gauge of METRICS
    news,       \* how many times Metrics::new has run
    fault,      \* environment: the registration the library refuses (0: none)
    keys,       \* environment: the keys this behaviour's requests carry
    lastReq,    \* the request handled last: [route, params]
    resp,       \* its response: [status, msg, metrics]
    task,       \* concurrent /push handlers: [pc, data, at, status, met]
    lastWriter, \* per gauge, the task whose set completed last
    rin,        \* a call of round: [neg, n, q, places], the value being n / 10^q
    rout,       \* its result
    din,        \* a call of the decode: the key -> string map
    dout        \* its result: [ok, data, extra, err]

mainVars  == <<mainPc, exit>>
cellVars  == <<METRICS, gauge, news>>
envVars   == <<fault, keys>>
reqVars   == <<lastReq, resp>>
raceVars  == <<task, lastWriter>>
callVars  == <<rin, rout, din, dout>>

vars == <<mainVars, cellVars, envVars, reqVars, raceVars, callVars>>

\* Two request handlers can run at once.
Workers == {"w1", "w2"}

NoGauges == [m \in Members |-> [k |-> "absent", v |-> 0]]

NoReq == [route |-> "none", params |-> NoParams]

NoResp == [status |-> 0, msg |-> <<>>, metrics |-> <<>>]

IdleTask == [pc |-> "idle", data |-> DefaultData, at |-> 0, status |-> 0, met |-> FALSE]

Uninit == [state |-> "uninit", registry |-> <<>>, err |-> ""]

NoCall == [neg |-> FALSE, n |-> 0, q |-> 0, places |-> 0]

NoResult == [k |-> "none", v |-> 0]

NoDecode == [ok |-> FALSE, data |-> DefaultData, extra |-> {}, err |-> "not called"]

InitServer ==
    /\ mainPc = "start"
    /\ exit = "none"
    /\ METRICS = Uninit
    /\ gauge = NoGauges
    /\ news = 0
    /\ lastReq = NoReq
    /\ resp = NoResp
    /\ task = [w \in Workers |-> IdleTask]
    /\ lastWriter = [m \in Members |-> "none"]

Init ==
    /\ InitServer
    /\ fault \in 0..Len(Catalog)
    /\ keys \in KeyWindows
    /\ rin = NoCall
    /\ rout = NoResult
    /\ din = NoParams
    /\ dout = NoDecode

\* ------------------------------------------------------------------------
\* The Lazy cell and main
\* ------------------------------------------------------------------------

\* Lazy::force: the first access runs the initializer,
\* Metrics::new().map_err(|e| e.to_string()); later accesses only read.
Forced(cell, flt) ==
    IF cell.state # "uninit" THEN cell
    ELSE LET r == MetricsNew(flt) IN
         IF r.ok THEN [state |-> "ok", registry |-> r.registry, err |-> ""]
         ELSE [state |-> "err", registry |-> <<>>, err |-> r.name]

\* The gauges after a force: Gauge::new leaves every new gauge at 0.0.
ForcedGauges(cell, g) ==
    IF cell.state = "uninit" /\ Forced(cell, fault).state = "ok" THEN ZeroGauges ELSE g

ForcedNews(cell, n) == IF cell.state = "uninit" THEN n + 1 ELSE n

\* METRICS.as_ref(), as an action on the cell.
Force ==
    /\ METRICS' = Forced(METRICS, fault)
    /\ gauge' = ForcedGauges(METRICS, gauge)
    /\ news' = ForcedNews(METRICS, news)

\* A variant of main that forces METRICS and goes on to start the server
\* whatever the result.
MainInitNoExit ==
    /\ mainPc = "start"
    /\ Force
    /\ mainPc' = "bind"
    /\ exit' = exit
    /\ UNCHANGED <<envVars, reqVars, raceVars, callVars>>

\* main, up to the start of the server: METRICS.as_ref() is forced; an Err
\* makes main return MetricRegistrationError.
MainInit ==
    /\ mainPc = "start"
    /\ Force
    /\ IF METRICS'.state = "err"
       THEN mainPc' = "exited" /\ exit' = "MetricRegistrationError"
       ELSE mainPc' = "bind" /\ exit' = exit
    /\ UNCHANGED <<envVars, reqVars, raceVars, callVars>>

\* web::server(..).bind(addr)?.run(): the bind may fail with an io::Error.
MainBind ==
    /\ mainPc = "bind"
    /\ \E bound \in BOOLEAN :
          IF bound THEN mainPc' = "serving" /\ exit' = exit
          ELSE mainPc' = "exited" /\ exit' = "ServerError"
    /\ UNCHANGED <<cellVars, envVars, reqVars, raceVars, callVars>>

\* .run().await returns when the server is stopped; main returns Ok(()).
MainStop ==
    /\ mainPc = "serving"
    /\ \A w \in Workers : task[w].pc # "updating"
    /\ mainPc' = "exited"
    /\ exit' = "Ok"
    /\ UNCHANGED <<cellVars, envVars, reqVars, raceVars, callVars>>

\* ------------------------------------------------------------------------
\* Handlers
\* ------------------------------------------------------------------------

\* A variant of error_response without the match on the error's kind.
ErrorResponseAll500(kind, text) == [status |-> 500, msg |-> text, metrics |-> <<>>]

\* AppError::error_response: 400 for ParseError and SerializeError, 500 for
\* the rest; the body is the error's Display text.
ErrorResponse(kind, text) ==
    [status  |-> IF kind \in {"ParseError", "SerializeError"} THEN 400 ELSE 500,
     msg     |-> text,
     metrics |-> <<>>]

ParseErrorText(desc) == <<"failed to parse weather data: ", desc>>

RegistrationErrorText(name, source) == <<"failed to register metric '", name, "': ", source>>

OkText == [status |-> 200, msg |-> <<"ok">>, metrics |-> <<>>]

\* fn metrics(): METRICS.as_ref(), an Err becoming MetricRegistrationError
\* with the name "global".
MetricsError(cell) ==
    ErrorResponse("MetricRegistrationError", RegistrationErrorText("global", cell.err))

\* The decode of handle_weather_data: the map is written out as a query
\* string (which cannot fail for a map of strings) and read back as
\* WeatherData.
Decode(params, order) == FromStr(ToQueryString(params, order))

\* The fields of a map that parse, each taken alone.
LenientData(params) ==
    [key \in FieldKeys |->
        IF key \in DOMAIN params /\ ParseField(FieldType(key), params[key]).ok
        THEN ParseField(FieldType(key), params[key]).val
        ELSE NoneVal]

\* A variant of the handler that writes each field as soon as it is parsed,
\* so that a request refused by the decode has written its good fields.
PushResultPartial(params, order, cell, g) ==
    LET d == Decode(params, order) IN
    IF ~d.ok
    THEN [resp |-> ErrorResponse("ParseError", ParseErrorText(d.err)),
          gauge |-> IF cell.state = "ok" THEN Update(g, LenientData(params)) ELSE g,
          forced |-> TRUE]
    ELSE IF cell.state = "ok"
    THEN [resp |-> OkText, gauge |-> Update(g, d.data), forced |-> TRUE]
    ELSE [resp |-> MetricsError(cell), gauge |-> g, forced |-> TRUE]

\* handle_weather_data after the parameters are taken: the decode, then
\* metrics()?.update(&data), then Ok("ok"); each `?` returns the error.
\* cell and g are METRICS and its gauges as metrics() finds them; `forced`
\* tells whether metrics() was reached.
PushResult(params, order, cell, g) ==
    LET d == Decode(params, order) IN
    IF ~d.ok
    THEN [resp |-> ErrorResponse("ParseError", ParseErrorText(d.err)),
          gauge |-> g, forced |-> FALSE]
    ELSE IF cell.state = "ok"
    THEN [resp |-> OkText, gauge |-> Update(g, d.data), forced |-> TRUE]
    ELSE [resp |-> MetricsError(cell), gauge |-> g, forced |-> TRUE]

\* handle_weather_data, run to completion.
HandleWeatherData(params, order) ==
    LET r == PushResult(params, order, Forced(METRICS, fault), ForcedGauges(METRICS, gauge)) IN
    /\ mainPc = "serving"
    /\ \A w \in Workers : task[w].pc = "idle"
    /\ lastReq' = [route |-> "push", params |-> params]
    /\ resp' = r.resp
    /\ IF r.forced
       THEN /\ METRICS' = Forced(METRICS, fault)
            /\ news' = ForcedNews(METRICS, news)
            /\ gauge' = r.gauge
       ELSE UNCHANGED cellVars
    /\ UNCHANGED <<mainVars, envVars, raceVars, callVars>>

Push ==
    \E params \in ParamMaps(keys) : \E order \in Orders(DOMAIN params) :
        HandleWeatherData(params, order)

\* handle_metrics: metrics()?.encode()?, returned with the exposition
\* content type.  TextEncoder::encode into a Vec does not fail.
HandleMetrics ==
    /\ mainPc = "serving"
    /\ lastReq' = [route |-> "metrics", params |-> NoParams]
    /\ Force
    /\ resp' = IF METRICS'.state = "ok"
               THEN [status |-> 200, msg |-> <<"text/plain; version=0.0.4; charset=utf-8">>,
                     metrics |-> Encode(METRICS'.registry, gauge')]
               ELSE MetricsError(METRICS')
    /\ UNCHANGED <<mainVars, envVars, raceVars, callVars>>

\* A variant of handle_health that reports 503 after a request that was
\* answered with an error.
HandleHealthAfterError ==
    /\ mainPc = "serving"
    /\ lastReq' = [route |-> "health", params |-> NoParams]
    /\ resp' = IF resp.status >= 400
               THEN [status |-> 503, msg |-> <<"unhealthy">>, metrics |-> <<>>]
               ELSE OkText
    /\ UNCHANGED <<mainVars, cellVars, envVars, raceVars, callVars>>

\* handle_health: always 200 "ok"; METRICS is not consulted.
HandleHealth ==
    /\ mainPc = "serving"
    /\ lastReq' = [route |-> "health", params |-> NoParams]
    /\ resp' = OkText
    /\ UNCHANGED <<mainVars, cellVars, envVars, raceVars, callVars>>

\* ------------------------------------------------------------------------
\* Concurrent /push handlers
\* ------------------------------------------------------------------------
\* Two handlers run handle_weather_data at once.  Decode works on the
\* request's own data; the shared steps are the Gauge::set calls of update,
\* one atomic store each, taken in the order of update's statements.

\* The first statement of update after position `at` whose field is Some
\* (Len(UpdateTable) + 1 if there is none).
NextPresent(data, at) ==
    IF \E i \in (at + 1)..Len(UpdateTable) : Present(data, UpdateTable[i].key)
    THEN CHOOSE i \in (at + 1)..Len(UpdateTable) :
            /\ Present(data, UpdateTable[i].key)
            /\ \A j \in (at + 1)..(i - 1) : ~Present(data, UpdateTable[j].key)
    ELSE Len(UpdateTable) + 1

\* handle_weather_data up to the call of update: decode, then metrics()?.
Accept(w) ==
    /\ mainPc = "serving"
    /\ task[w].pc = "idle"
    /\ \E params \in ParamMaps(keys) : \E order \in Orders(DOMAIN params) :
          LET d   == Decode(params, order)
              met == \E o \in Workers \ {w} : task[o].pc = "updating"
          IN  IF ~d.ok
              THEN /\ task' = [task EXCEPT ![w] = [IdleTask EXCEPT !.pc = "done", !.status = 400]]
                   /\ UNCHANGED cellVars
              ELSE /\ Force
                   /\ task' = [task EXCEPT ![w] =
                                 IF METRICS'.state = "ok"
                                 THEN [pc |-> "updating", data |-> d.data, at |-> 0,
                                       status |-> 0, met |-> met]
                                 ELSE [IdleTask EXCEPT !.pc = "done", !.status = 500]]
    /\ UNCHANGED <<mainVars, envVars, reqVars, lastWriter, callVars>>

\* The next statement of update that has a value: one Gauge::set.
SetNext(w) ==
    LET i == NextPresent(task[w].data, task[w].at) IN
    /\ task[w].pc = "updating"
    /\ i <= Len(UpdateTable)
    /\ gauge' = UpdateStmt(gauge, UpdateTable[i], task[w].data)
    /\ lastWriter' = [lastWriter EXCEPT ![UpdateTable[i].member] = w]
    /\ task' = [task EXCEPT ![w].at = i,
                            ![w].met = @ \/ \E o \in Workers \ {w} : task[o].pc = "updating"]
    /\ UNCHANGED <<mainVars, METRICS, news, envVars, reqVars, callVars>>

\* update has returned: the handler answers "ok".
Finish(w) ==
    /\ task[w].pc = "updating"
    /\ NextPresent(task[w].data, task[w].at) > Len(UpdateTable)
    /\ task' = [task EXCEPT ![w].pc = "done", ![w].status = 200]
    /\ UNCHANGED <<mainVars, cellVars, envVars, reqVars, lastWriter, callVars>>

\* GET /metrics once every handler has returned: the next encode after the
\* updates (a scrape writes no gauge, so earlier ones are left out).
Scrape ==
    /\ \A w \in Workers : task[w].pc = "done"
    /\ HandleMetrics

NextRace ==
    \/ MainInit
    \/ MainBind
    \/ \E w \in Workers : Accept(w)
    \/ \E w \in Workers : SetNext(w)
    \/ \E w \in Workers : Finish(w)
    \/ Scrape

SpecRace == Init /\ [][NextRace]_vars

\* ------------------------------------------------------------------------
\* Calls of round
\* ------------------------------------------------------------------------

\* test_round: round(72.456, 1), round(72.444, 1), round(0.123456, 3),
\* round(0.1239, 3).
TestCalls ==
    {[neg |-> FALSE, n |-> 72456,  q |-> 3, places |-> 1],
     [neg |-> FALSE, n |-> 72444,  q |-> 3, places |-> 1],
     [neg |-> FALSE, n |-> 123456, q |-> 6, places |-> 3],
     [neg |-> FALSE, n |-> 1239,   q |-> 4, places |-> 3]}

\* round(n / 10^(places+1), places) for the scaled integers of the bound.
ScaledCalls ==
    {[neg |-> s, n |-> n, q |-> pl + 1, places |-> pl] :
        s \in BOOLEAN, n \in 0..MaxN, pl \in 0..MaxPlaces}

InitRound ==
    /\ InitServer
    /\ fault = 0
    /\ keys = {KeyOrder[1], KeyOrder[2]}
    /\ rin \in TestCalls \cup ScaledCalls
    /\ rout = NoResult
    /\ din = NoParams
    /\ dout = NoDecode

\* The decimal literal is compiled to the nearest f32 and passed to round.
CallRound ==
    /\ rout = NoResult
    /\ rout' = Round(F32Of(rin.neg, rin.n, rin.q), rin.places)
    /\ UNCHANGED <<mainVars, cellVars, envVars, reqVars, raceVars, rin, din, dout>>

NextRound == CallRound

SpecRound == InitRound /\ [][NextRound]_vars

\* ------------------------------------------------------------------------
\* Calls of the decode
\* ------------------------------------------------------------------------

InitDecode ==
    /\ InitServer
    /\ fault = 0
    /\ keys \in KeyWindows
    /\ rin = NoCall
    /\ rout = NoResult
    /\ din \in ParamMaps(keys)
    /\ dout = NoDecode

\* The map is decoded, its pairs in any iteration order.
CallDecode ==
    /\ dout = NoDecode
    /\ \E order \in Orders(DOMAIN din) : dout' = Decode(din, order)
    /\ UNCHANGED <<mainVars, cellVars, envVars, reqVars, raceVars, rin, rout, din>>

NextDecode == CallDecode

SpecDecode == InitDecode /\ [][NextDecode]_vars

\* ------------------------------------------------------------------------
\* Specification: the server, one request at a time
\* ------------------------------------------------------------------------

Next ==
    \/ MainInit
    \/ MainBind
    \/ MainStop
    \/ Push
    \/ HandleMetrics
    \/ HandleHealth

Spec == Init /\ [][Next]_vars

\* ------------------------------------------------------------------------
\* Properties
\* ------------------------------------------------------------------------

Abs(x) == IF x < 0 THEN -x ELSE x

\* The statement of update that reads a field, and the value the field's
\* text parses to.
StmtOf(key) == UpdateTable[CHOOSE i \in 1..Len(UpdateTable) : UpdateTable[i].key = key]

ParsedText(key, params) == ParseField(FieldType(key), params[key])

\* The recognized keys of a map, and those whose text does not parse.
Recognized(params) == DOMAIN params \cap FieldKeys

Unparseable(params) == {key \in Recognized(params) : ~ParsedText(key, params).ok}

\* The value an encode output shows for a gauge.
EntryOf(member) == Catalog[CHOOSE i \in 1..Len(Catalog) : Catalog[i].member = member]

Scraped(out, member) ==
    out[CHOOSE j \in 1..Len(out) : out[j].name = EntryOf(member).name].value

\* C1: a gauge whose source field is absent from the reading of an update
\* keeps the value it had before that update (so, over any sequence of
\* updates, the value of the last reading that carried the field), and on a
\* freshly constructed registry every gauge holds 0.
C1_AbsentFieldKeepsGauge ==
    /\ [](METRICS.state = "ok" /\ lastReq = NoReq => gauge = ZeroGauges)
    /\ [][(lastReq'.route = "push" /\ resp'.status = 200) =>
             \A i \in 1..Len(UpdateTable) :
                UpdateTable[i].key \notin DOMAIN lastReq'.params =>
                   gauge'[UpdateTable[i].member] = gauge[UpdateTable[i].member]]_vars

\* An accepted reading that left a field out, the field's gauge still
\* holding what an earlier reading wrote.
C1_Witness ==
    /\ lastReq.route = "push"
    /\ resp.status = 200
    /\ Recognized(lastReq.params) # {}
    /\ \E i \in 1..Len(UpdateTable) :
          /\ UpdateTable[i].key \notin DOMAIN lastReq.params
          /\ gauge[UpdateTable[i].member] # Num(0)

\* C2: a request whose decode fails is answered 400 and leaves every gauge
\* exactly as it was: nothing of it is written, its well-formed fields
\* included.
C2_FailedDecodeWritesNothing ==
    [][(lastReq'.route = "push" /\ resp'.status = 400) => gauge' = gauge]_vars

\* A refused request that carried a well-formed field next to the malformed
\* one, the well-formed field's gauge not holding that field's value.
C2_Witness ==
    /\ lastReq.route = "push"
    /\ resp.status = 400
    /\ \E good, bad \in Recognized(lastReq.params) :
          /\ ParsedText(good, lastReq.params).ok
          /\ ~ParsedText(bad, lastReq.params).ok
          /\ gauge[StmtOf(good).member] #
                Stored(StmtOf(good), ParsedText(good, lastReq.params).val)

\* The gauges a handler's reading writes.
WrittenBy(w) ==
    {UpdateTable[i].member :
        i \in {j \in 1..Len(UpdateTable) : Present(task[w].data, UpdateTable[j].key)}}

\* C3: when two updates that write different fields run concurrently and
\* both have returned, the next encode shows, for every gauge either of them
\* wrote, the value that update stored, whatever the interleaving.
C3_DisjointUpdatesBothSeen ==
    (lastReq.route = "metrics" /\ resp.status = 200) =>
        \A a, b \in Workers :
           (/\ a # b
            /\ task[a].status = 200
            /\ task[b].status = 200
            /\ WrittenBy(a) \cap WrittenBy(b) = {}) =>
              \A w \in {a, b} : \A i \in 1..Len(UpdateTable) :
                 Present(task[w].data, UpdateTable[i].key) =>
                    Scraped(resp.metrics, UpdateTable[i].member) =
                       Stored(UpdateTable[i], task[w].data[UpdateTable[i].key])

\* Two updates of different fields that overlapped in time, both returned,
\* and the encode after them.
C3_Witness ==
    /\ lastReq.route = "metrics"
    /\ resp.status = 200
    /\ \A w \in Workers : task[w].status = 200 /\ task[w].met /\ WrittenBy(w) # {}
    /\ WrittenBy("w1") \cap WrittenBy("w2") = {}

\* C4: every gauge holds, at every moment, either its initial 0 (no write
\* yet) or exactly the value one of the handlers stored for its field, never
\* a blend; once all handlers have returned it holds the value of the write
\* that completed last.
C4_LastWriteWins ==
    METRICS.state = "ok" =>
        \A i \in 1..Len(UpdateTable) :
           LET s == UpdateTable[i] IN
           /\ lastWriter[s.member] = "none" => gauge[s.member] = Num(0)
           /\ lastWriter[s.member] # "none" =>
                 \E w \in Workers :
                    /\ Present(task[w].data, s.key)
                    /\ task[w].at >= i
                    /\ gauge[s.member] = Stored(s, task[w].data[s.key])
           /\ (lastWriter[s.member] # "none" /\ \A w \in Workers : task[w].pc = "done") =>
                 gauge[s.member] = Stored(s, task[lastWriter[s.member]].data[s.key])

\* Two overlapping updates wrote the same gauge with different values and
\* both have returned.
C4_Witness ==
    /\ \A w \in Workers : task[w].pc = "done" /\ task[w].status = 200 /\ task[w].met
    /\ \E i \in 1..Len(UpdateTable) :
          LET s == UpdateTable[i] IN
          /\ \A w \in Workers : Present(task[w].data, s.key)
          /\ task["w1"].data[s.key] # task["w2"].data[s.key]
          /\ lastWriter[s.member] # "none"

\* C5: the registry is constructed exactly once, before the server accepts
\* a request: whenever a request has been handled the registry is in its
\* successfully constructed state; if construction fails main exits with the
\* registration error and no request is ever handled.
C5_StartupGating ==
    /\ news <= 1
    /\ mainPc \in {"bind", "serving"} => (METRICS.state = "ok" /\ news = 1)
    /\ lastReq # NoReq => (METRICS.state = "ok" /\ news = 1)
    /\ METRICS.state = "err" =>
          (mainPc = "exited" /\ exit = "MetricRegistrationError" /\ lastReq = NoReq)
    /\ METRICS.state = "uninit" => (mainPc = "start" /\ lastReq = NoReq)

\* Construction failed: main has exited with the error, nothing was served.
C5_Witness ==
    /\ METRICS.state = "err"
    /\ news = 1
    /\ mainPc = "exited"
    /\ exit = "MetricRegistrationError"
    /\ lastReq = NoReq

\* C6: the decode of a key -> string map fails exactly when some recognized
\* key carries a text that does not parse into its field's type; keys the
\* schema does not know never make it fail.  On success every recognized
\* key of the map holds its parsed value and every other field is absent;
\* the empty map decodes to the reading with every field absent.
C6_DecodeFailsIffBadRecognized ==
    dout # NoDecode =>
        /\ dout.ok <=> Unparseable(din) = {}
        /\ dout.ok =>
              \A key \in FieldKeys :
                 dout.data[key] = IF key \in DOMAIN din
                                  THEN ParsedText(key, din).val
                                  ELSE NoneVal
        /\ din = NoParams => (dout.ok /\ dout.data = DefaultData)

\* A map with a well-formed recognized key and an unknown key whose value
\* holds separators and spaces, decoded successfully.
C6_Witness ==
    /\ dout # NoDecode
    /\ dout.ok
    /\ Recognized(din) # {}
    /\ UnknownKey \in DOMAIN din
    /\ din[UnknownKey] = <<"a", "&", "b", "=", " ", "+">>

\* The precision of each field as the specification's table gives it
\* (0: an integer field, stored exactly).
TablePlaces(key) ==
    CASE key \in {"tempf", "tempinf"} -> 1
      [] key \in {"windspeedmph", "windgustmph", "maxdailygust", "solarradiation"} -> 2
      [] key \in {"hourlyrainin", "eventrainin", "dailyrainin", "weeklyrainin",
                  "monthlyrainin", "yearlyrainin", "baromrelin", "baromabsin"} -> 3
      [] OTHER -> 0

\* stored is v quantized to `places` decimals: a multiple of 10^-places at
\* most half a unit from v (an integer: v itself).
Quantized(v, places, stored) ==
    CASE v.k = "int" -> stored = Num(v.v * Pow10(MaxPlaces))
      [] v.k = "fin" ->
            /\ stored.k = "num"
            /\ stored.v % Pow10(MaxPlaces - places) = 0
            /\ 2 * Abs(stored.v * Pow10(v.q) - v.sgn * v.n * Pow10(MaxPlaces))
                  <= Pow10(MaxPlaces - places) * Pow10(v.q)
      [] OTHER -> stored.k = v.k

\* C7: after an accepted update, the gauge wired to each field present in
\* the reading holds the field's value quantized to the field's precision
\* (1: the two temperatures; 2: the three wind speeds and solar radiation;
\* 3: the six rainfalls and the two pressures; the integer fields exactly),
\* and no other gauge is written.
C7_PrecisionTable ==
    [][(lastReq'.route = "push" /\ resp'.status = 200) =>
          \A i \in 1..Len(UpdateTable) :
             LET s == UpdateTable[i] IN
             IF s.key \in DOMAIN lastReq'.params
             THEN Quantized(ParsedText(s.key, lastReq'.params).val, TablePlaces(s.key),
                            gauge'[s.member])
             ELSE gauge'[s.member] = gauge[s.member]]_vars

\* 72.456 pushed as a wind speed (two decimals) is stored as 72.46.
C7_Witness ==
    /\ lastReq.route = "push"
    /\ resp.status = 200
    /\ \E key \in Recognized(lastReq.params) :
          /\ TablePlaces(key) = 2
          /\ lastReq.params[key] = <<"7", "2", ".", "4", "5", "6">>
          /\ gauge[StmtOf(key).member] = Num(7246 * Pow10(MaxPlaces - 2))

\* The expected results of test_round, in units of 10^-MaxPlaces.
TestExpected(call) ==
    CASE call.n = 72456  -> Num(725 * Pow10(MaxPlaces - 1))
      [] call.n = 72444  -> Num(724 * Pow10(MaxPlaces - 1))
      [] call.n = 123456 -> Num(123 * Pow10(MaxPlaces - 3))
      [] call.n = 1239   -> Num(124 * Pow10(MaxPlaces - 3))

Sign(call) == IF call.neg THEN -1 ELSE 1

\* C8 as stated: for every scaled integer n, round(n / 10^(places+1),
\* places) is sign(n) * floor(|n| / 10 + 1/2) / 10^places.
C8_ScaledHalfAway ==
    (rout # NoResult /\ rin \in ScaledCalls) =>
        rout = Num(Sign(rin) * ((rin.n + 5) \div 10) * Pow10(MaxPlaces - rin.places))

\* C8, amended: round returns a multiple of 10^-places nearest to its
\* argument; for a scaled integer n the result is
\* sign(n) * floor(|n| / 10 + 1/2) / 10^places, except that a decimal tie
\* (|n| mod 10 = 5) whose nearest 32-bit float lies below it in magnitude
\* goes to the multiple nearer zero; the examples of test_round hold.
C8_RoundHalfAwayOfFloat ==
    rout # NoResult =>
        /\ Quantized(F32Of(rin.neg, rin.n, rin.q), rin.places, rout)
        /\ rin \in TestCalls => rout = TestExpected(rin)
        /\ rin \in ScaledCalls =>
              LET below == rin.n % 10 = 5 /\ F32Dir(rin.n, rin.q) < 0 IN
              rout = Num(Sign(rin) * ((rin.n + 5) \div 10 - (IF below THEN 1 ELSE 0))
                            * Pow10(MaxPlaces - rin.places))

\* round(0.35, 1): the float nearest 0.35 is below it, the result is 0.3.
C8_Witness ==
    /\ rin = [neg |-> FALSE, n |-> 35, q |-> 2, places |-> 1]
    /\ rout = Num(3 * Pow10(MaxPlaces - 1))

\* C9: a /push request ends in exactly one of three ways: 400 with the
\* parse error's description when the decode fails; 200 "ok" when the
\* decode succeeds and the registry is available, every present field being
\* written by then; 500 when the decode succeeds and the registry is not
\* available.
C9_PushOutcomes ==
    lastReq.route = "push" =>
        IF Unparseable(lastReq.params) # {}
        THEN /\ resp.status = 400
             /\ \E key \in Unparseable(lastReq.params) :
                   resp.msg = <<"failed to parse weather data: ",
                                ParsedText(key, lastReq.params).err>>
        ELSE IF METRICS.state = "ok"
        THEN /\ resp = [status |-> 200, msg |-> <<"ok">>, metrics |-> <<>>]
             /\ \A key \in Recognized(lastReq.params) :
                   gauge[StmtOf(key).member] =
                      Stored(StmtOf(key), ParsedText(key, lastReq.params).val)
        ELSE resp.status = 500

\* A request refused with 400 and the parse error's description.
C9_Witness ==
    /\ lastReq.route = "push"
    /\ resp.status = 400
    /\ Unparseable(lastReq.params) # {}
    /\ resp.msg[1] = "failed to parse weather data: "

\* C10: a /metrics request is answered 200 with one entry per gauge of the
\* catalog, each with the gauge's name, help text, type and current value;
\* the encode changes no gauge, and two encodes with no update between them
\* give the same output.
C10_EncodeCurrentValues ==
    /\ [](lastReq.route = "metrics" =>
             /\ resp.status = 200
             /\ Len(resp.metrics) = Len(Catalog)
             /\ \A i \in 1..Len(Catalog) : \E j \in 1..Len(resp.metrics) :
                   resp.metrics[j] = [name  |-> Catalog[i].name,
                                      help  |-> Catalog[i].help,
                                      type  |-> "gauge",
                                      value |-> gauge[Catalog[i].member]])
    /\ [][/\ lastReq'.route = "metrics" => gauge' = gauge
          /\ (lastReq.route = "metrics" /\ lastReq'.route = "metrics") => resp' = resp]_vars

\* An encode that shows a written gauge next to one never written.
C10_Witness ==
    /\ lastReq.route = "metrics"
    /\ resp.status = 200
    /\ \E a, b \in Members :
          /\ Scraped(resp.metrics, a) # Num(0)
          /\ Scraped(resp.metrics, b) = Num(0)

\* The gauges of a registry that a tracked field is wired to.
GaugesOfField(registry, key) ==
    {i \in 1..Len(registry) : registry[i].member = StmtOf(key).member}

\* One named gauge per tracked field: every field has exactly one gauge,
\* every gauge belongs to a field, and no two gauges share a name.
OneGaugePerField(registry) ==
    /\ \A key \in FieldKeys : Cardinality(GaugesOfField(registry, key)) = 1
    /\ \A i \in 1..Len(registry) : \E key \in FieldKeys : i \in GaugesOfField(registry, key)
    /\ \A i, j \in 1..Len(registry) : registry[i].name = registry[j].name => i = j

\* C11 as stated: a constructed registry has one named gauge per tracked
\* field, 22 gauges in total.
C11_TwentyTwoGauges ==
    METRICS.state = "ok" =>
        (OneGaugePerField(METRICS.registry) /\ Len(METRICS.registry) = 22)

\* C11, amended: a constructed registry has exactly one named gauge per
\* tracked field of the reading, 21 gauges in total, and the gauges, their
\* names and their help texts never change after construction.
C11_OneGaugePerField ==
    /\ [](METRICS.state = "ok" =>
             /\ OneGaugePerField(METRICS.registry)
             /\ Len(METRICS.registry) = Cardinality(FieldKeys)
             /\ Len(METRICS.registry) = 21)
    /\ [][METRICS.state = "ok" => METRICS' = METRICS]_vars

\* The registry after an accepted update: still the 21 gauges.
C11_Witness ==
    /\ METRICS.state = "ok"
    /\ Len(METRICS.registry) = 21
    /\ lastReq.route = "push"
    /\ resp.status = 200
    /\ gauge # ZeroGauges

\* C12: every /health request handled by the running server is answered
\* 200 "ok", never 503, whatever /push and /metrics requests (failed ones
\* included) came before; the handler touches neither the registry nor a
\* gauge, and whenever it has run the registry is successfully constructed.
C12_HealthAlwaysOk ==
    /\ [](lastReq.route = "health" =>
             /\ resp = [status |-> 200, msg |-> <<"ok">>, metrics |-> <<>>]
             /\ METRICS.state = "ok")
    /\ [](resp.status # 503)
    /\ [][lastReq'.route = "health" =>
             /\ resp'.status = 200
             /\ resp'.msg = <<"ok">>
             /\ METRICS' = METRICS
             /\ gauge' = gauge]_vars

\* /health answered "ok" by a server that has taken readings.
C12_Witness ==
    /\ lastReq.route = "health"
    /\ resp.status = 200
    /\ resp.msg = <<"ok">>
    /\ mainPc = "serving"
    /\ METRICS.state = "ok"
    /\ gauge # ZeroGauges

HumidityKeys == {"humidity", "humidityin"}

RainKeys == {"hourlyrainin", "eventrainin", "dailyrainin", "weeklyrainin",
             "monthlyrainin", "yearlyrainin"}

\* A text that is a plain non-negative integer, whatever its size.
IsInteger(text) == text # <<>> /\ AllDigits(text)

\* A text that is a negative decimal number.
IsNegative(key, params) ==
    /\ ParsedText(key, params).ok
    /\ ParsedText(key, params).val.k = "fin"
    /\ ParsedText(key, params).val.sgn < 0
    /\ ParsedText(key, params).val.n > 0

\* Every recognized key of the request other than `key` parses.
OthersParse(key, params) == Unparseable(params) \subseteq {key}

\* C13 as stated: a /push carrying a humidity greater than 100, or a
\* negative rainfall, succeeds and the gauge holds that value.
C13_OutOfRangeStored ==
    lastReq.route = "push" =>
        /\ \A key \in HumidityKeys \cap DOMAIN lastReq.params :
              (/\ IsInteger(lastReq.params[key])
               /\ DigitsVal(lastReq.params[key]) > 100
               /\ OthersParse(key, lastReq.params)) =>
                 /\ resp.status = 200
                 /\ gauge[StmtOf(key).member] =
                       Num(DigitsVal(lastReq.params[key]) * Pow10(MaxPlaces))
        /\ \A key \in RainKeys \cap DOMAIN lastReq.params :
              (IsNegative(key, lastReq.params) /\ OthersParse(key, lastReq.params)) =>
                 /\ resp.status = 200
                 /\ Quantized(ParsedText(key, lastReq.params).val, 3,
                              gauge[StmtOf(key).member])

\* C13, amended: update validates and clamps nothing.  A humidity from 101
\* to 255 and any negative rainfall are accepted and stored as given (the
\* rainfall rounded to 3 places); a humidity above 255 does not fit the
\* field's 8-bit type, so the decode fails and the request is answered 400.
C13_OutOfRangeWithinType ==
    lastReq.route = "push" =>
        /\ \A key \in HumidityKeys \cap DOMAIN lastReq.params :
              (/\ IsInteger(lastReq.params[key])
               /\ DigitsVal(lastReq.params[key]) > 100) =>
                 IF DigitsVal(lastReq.params[key]) > 255
                 THEN resp.status = 400
                 ELSE OthersParse(key, lastReq.params) =>
                         /\ resp.status = 200
                         /\ gauge[StmtOf(key).member] =
                               Num(DigitsVal(lastReq.params[key]) * Pow10(MaxPlaces))
        /\ \A key \in RainKeys \cap DOMAIN lastReq.params :
              (IsNegative(key, lastReq.params) /\ OthersParse(key, lastReq.params)) =>
                 /\ resp.status = 200
                 /\ gauge[StmtOf(key).member].v < 0
                 /\ Quantized(ParsedText(key, lastReq.params).val, 3,
                              gauge[StmtOf(key).member])

\* A humidity of 200 was accepted and is what the gauge holds.
C13_Witness ==
    /\ lastReq.route = "push"
    /\ resp.status = 200
    /\ \E key \in HumidityKeys \cap DOMAIN lastReq.params :
          /\ lastReq.params[key] = <<"2", "0", "0">>
          /\ gauge[StmtOf(key).member] = Num(200 * Pow10(MaxPlaces))

\* How many gauges of a registry carry a name.
TimesRegistered(registry, name) ==
    Cardinality({i \in 1..Len(registry) : registry[i].name = name})

\* C14: the catalog's names are pairwise distinct and each is registered
\* exactly once, so the reference catalog is constructed without a name
\* collision; registering a name again is refused with that name; when a
\* gauge cannot be registered, construction fails with the error carrying
\* that gauge's name and leaves no usable registry; and nothing is
\* registered while requests are handled.
C14_RegisteredOncePerName ==
    /\ [](/\ \A i, j \in 1..Len(Catalog) : Catalog[i].name = Catalog[j].name => i = j
          /\ (METRICS.state # "uninit" /\ fault = 0) =>
                /\ METRICS.state = "ok"
                /\ \A i \in 1..Len(Catalog) :
                      /\ TimesRegistered(METRICS.registry, Catalog[i].name) = 1
                      /\ ~register_gauge(METRICS.registry, Catalog[i], FALSE).ok
                      /\ register_gauge(METRICS.registry, Catalog[i], FALSE).name =
                            Catalog[i].name
          /\ (METRICS.state # "uninit" /\ fault # 0) =>
                /\ METRICS.state = "err"
                /\ METRICS.err = Catalog[fault].name
                /\ METRICS.registry = <<>>
                /\ gauge = NoGauges
                /\ exit = "MetricRegistrationError"
          /\ news = IF METRICS.state = "uninit" THEN 0 ELSE 1)
    /\ [][mainPc = "serving" => (news' = news /\ METRICS' = METRICS)]_vars

\* Construction was refused at a gauge after the first: the error names
\* that gauge and there is no registry.
C14_Witness ==
    /\ fault > 1
    /\ METRICS.state = "err"
    /\ METRICS.err = Catalog[fault].name
    /\ METRICS.registry = <<>>
    /\ exit = "MetricRegistrationError"

=============================================================================
